---- MODULE Spec2Model ----
(***************************************************************************)
(* Voice-channel auctions of the Slumcoin bot: the Auction state machine   *)
(* and the AuctionManager registry of src/auction.rs.                      *)
(*                                                                         *)
(* Time is the wall clock (Utc::now()) in whole seconds.  Every manager    *)
(* operation runs its whole body while holding the registry's RwLock, so   *)
(* an operation is one atomic action and a concurrent execution is an      *)
(* interleaving of these actions in the order the lock is granted.  The    *)
(* clock reads of one body (auction.rs:47 and :84) are nanoseconds apart   *)
(* and are taken as one instant, `clock`; a body whose reads straddle a    *)
(* second behaves as the same call made at the first read followed by a    *)
(* Tick.                                                                   *)
(***************************************************************************)
EXTENDS Integers, FiniteSets, Sequences, Bags, TLC

VARIABLES
    clock,      \* Utc::now(), seconds
    auctions,   \* AuctionManager.auctions: HashMap<ChannelId, Auction>
    last,       \* the operation just executed: its arguments and what it returned
    stored,     \* history: channel -> auctions stored there by start and not yet returned
    handed,     \* history: channel -> times end/cleanup returned the auction last stored there
    accepted,   \* history: channel -> actor -> value of the actor's last submission that
                \* returned Ok on the auction stored there (0: none)
    balance,    \* Database: balances table, discord_id -> balance
    transactions, \* Database: transactions table, the auction_win rows in insertion order
    cmd,        \* the slash command each user has in flight (src/commands/user.rs)
    tasks,      \* the spawned auto-end tasks, a bag
    finished,   \* history: the auction whose ending was announced last
    votes,      \* the categorical-vote auction's proposals, actor -> label
    lock,       \* the registry's RwLock: the thread holding it in write mode, the readers
    threads,    \* the callers inside a manager operation: position, arguments, locals
    committed   \* history: the registry as the last writer left it on release

botvars == <<balance, transactions, cmd, tasks, finished>>

lockvars == <<lock, threads, committed>>

vars == <<clock, auctions, last, stored, handed, accepted, balance, transactions, cmd, tasks,
          finished, votes, lock, threads, committed>>

----------------------------------------------------------------------------
(* Bounds and inputs *)

\* bids are drawn from 0..MaxAmount
MaxAmount == 3

\* with two channels in use, bids are drawn from 0..MaxRegistryAmount
MaxRegistryAmount == 1

Channels == {"vc1", "vc2"}
Users == {"A", "B"}
Amounts == 0..MaxAmount
\* the instants at which the clock is read: around the 30 s window before the
\* deadline of an auction started at 0 (90, 91), inside it (115), at the deadline and
\* past it (120, 121), past the extended deadline 130 (131)
Instants == {0, 90, 91, 115, 120, 121, 131}

\* the same with two channels in use
OneChannel == {"vc1"}
RegistryAmounts == 0..MaxRegistryAmount
RegistryInstants == {0, 91, 121}

\* the slash commands: one channel, positive and non-positive amounts, the clock read
\* before the window, inside it and when the auto-end task wakes
BotChannels == {"vc1"}
BotAmounts == {0, 1, 2}
BotInstants == {0, 115, 121, 131}
\* balances table at start-up
InitialBalance == [u \in Users |-> 1]
\* the callers that run manager operations in parallel, what they bid, and when
Threads == {"t1", "t2"}
LockAmounts == {0, 1, 2}
LockInstants == {0, 115, 121}
\* the categorical-vote variant: who votes, and for what
Voters == {"A", "B", "C"}
Labels == {"chess", "poker", "go"}
\* at most MaxTasks auto-end tasks are alive
MaxTasks == 1
\* sleep(TokioDuration::from_secs(120)) of the auto-end task
AutoEndSleepSeconds == 120

\* the configuration /bid start passes to start_auction
BaseDurationSeconds == 120
ExtensionSeconds == 15
\* "Only extend if we're close to the end (within 30 seconds)"
ExtensionWindowSeconds == 30

BaseDurations == {BaseDurationSeconds}
\* base durations start_auction is called with when the caller is not /bid start
ConfigDurations == {-1, BaseDurationSeconds}
Extensions == {ExtensionSeconds}

----------------------------------------------------------------------------
(* Option<T> and Result<(), String> *)

None == <<>>
Some(x) == <<x>>

Ok == [kind |-> "Ok", n |-> 0]
\* Err("This auction has already ended!")
ErrAuctionExpired == [kind |-> "AuctionExpired", n |-> 0]
\* Err("Bid must be higher than current highest bid of {} Slumcoins")
ErrBidTooLow(h) == [kind |-> "BidTooLow", n |-> h]
\* Err("auction already running")
ErrAlreadyRunning == [kind |-> "AlreadyRunning", n |-> 0]
\* Err("No active auction in this voice channel!")
ErrNoActiveAuction == [kind |-> "NoActiveAuction", n |-> 0]

----------------------------------------------------------------------------
(* HashMap *)

EmptyMap == [k \in {} |-> 0]
\* HashMap::insert
MapInsert(m, k, v) == [x \in (DOMAIN m) \cup {k} |-> IF x = k THEN v ELSE m[x]]
\* HashMap::remove, the map left behind
MapRemove(m, k) == [x \in (DOMAIN m) \ {k} |-> m[x]]

SetMax(S) == CHOOSE x \in S : \A y \in S : y <= x
SetMin(S) == CHOOSE x \in S : \A y \in S : x <= y

----------------------------------------------------------------------------
(* Auction *)

AuctionBid(user_id, amount, timestamp) ==
    [user_id |-> user_id, amount |-> amount, timestamp |-> timestamp]

AuctionNew(voice_channel_id, creator_id, base_duration_seconds, extension_seconds, now) ==
    [voice_channel_id |-> voice_channel_id,
     creator_id |-> creator_id,
     start_time |-> now,
     end_time |-> now + base_duration_seconds,
     bids |-> EmptyMap,
     base_duration_seconds |-> base_duration_seconds,
     extension_seconds |-> extension_seconds]

\* faulty variant: the auction counts as expired at the deadline itself
is_expired_at_deadline(a, now) == now >= a.end_time

is_expired(a, now) == now > a.end_time

\* signed_duration_since(now).num_seconds().max(0)
time_remaining(a, now) == IF a.end_time - now > 0 THEN a.end_time - now ELSE 0

\* faulty variant: min() in place of max()
get_highest_bid_amount_min(a) ==
    IF DOMAIN a.bids = {} THEN 0
    ELSE SetMin({a.bids[u].amount : u \in DOMAIN a.bids})

get_highest_bid_amount(a) ==
    IF DOMAIN a.bids = {} THEN 0
    ELSE SetMax({a.bids[u].amount : u \in DOMAIN a.bids})

\* faulty variant: min_by_key in place of max_by_key
get_winner_lowest(a) ==
    IF DOMAIN a.bids = {} THEN {None}
    ELSE {Some(<<a.bids[u].user_id, a.bids[u].amount>>) :
            u \in {w \in DOMAIN a.bids :
                      \A v \in DOMAIN a.bids : a.bids[w].amount <= a.bids[v].amount}}

\* the outcomes of max_by_key over the HashMap's values: a bid of maximal amount
\* (which one, among equal amounts, depends on the iteration order)
get_winner(a) ==
    IF DOMAIN a.bids = {} THEN {None}
    ELSE {Some(<<a.bids[u].user_id, a.bids[u].amount>>) :
            u \in {w \in DOMAIN a.bids : a.bids[w].amount = get_highest_bid_amount(a)}}

\* faulty variant: the deadline is pushed from the old deadline instead of from now
extended_end_time_from_deadline(a, user_id, amount, now) ==
    IF (user_id \notin DOMAIN a.bids \/ a.bids[user_id].amount /= amount)
       /\ a.end_time - now < 30
    THEN a.end_time + a.extension_seconds
    ELSE a.end_time

should_extend(a, user_id, amount) ==
    \/ user_id \notin DOMAIN a.bids
    \/ a.bids[user_id].amount /= amount

extended_end_time(a, user_id, amount, now) ==
    IF should_extend(a, user_id, amount) /\ a.end_time - now < ExtensionWindowSeconds
    THEN now + a.extension_seconds
    ELSE a.end_time

BidAccepted(a, user_id, amount, now, end_time) ==
    [auction |-> [a EXCEPT !.end_time = end_time,
                           !.bids = MapInsert(a.bids, user_id, AuctionBid(user_id, amount, now))],
     res |-> [kind |-> "Ok", n |-> 0]]

\* faulty variant: a bid equal to the current highest is accepted
add_or_update_bid_ties(a, user_id, amount, now) ==
    IF now > a.end_time THEN [auction |-> a, res |-> ErrAuctionExpired]
    ELSE IF amount < get_highest_bid_amount(a)
    THEN [auction |-> a, res |-> ErrBidTooLow(get_highest_bid_amount(a))]
    ELSE BidAccepted(a, user_id, amount, now, extended_end_time(a, user_id, amount, now))

\* faulty variant: any positive amount is taken, whatever the current highest bid
add_or_update_bid_positive(a, user_id, amount, now) ==
    IF now > a.end_time THEN [auction |-> a, res |-> ErrAuctionExpired]
    ELSE IF amount <= 0
    THEN [auction |-> a, res |-> ErrBidTooLow(get_highest_bid_amount(a))]
    ELSE BidAccepted(a, user_id, amount, now, extended_end_time(a, user_id, amount, now))

\* faulty variant: a resubmission of the bidder's own amount is let through as a no-op update
add_or_update_bid_resubmit(a, user_id, amount, now) ==
    IF now > a.end_time THEN [auction |-> a, res |-> ErrAuctionExpired]
    ELSE IF user_id \in DOMAIN a.bids /\ a.bids[user_id].amount = amount
    THEN BidAccepted(a, user_id, amount, now, extended_end_time(a, user_id, amount, now))
    ELSE IF amount <= get_highest_bid_amount(a)
    THEN [auction |-> a, res |-> ErrBidTooLow(get_highest_bid_amount(a))]
    ELSE BidAccepted(a, user_id, amount, now, extended_end_time(a, user_id, amount, now))

\* faulty variant: the expiry check is missing
add_or_update_bid_late(a, user_id, amount, now) ==
    IF amount <= get_highest_bid_amount(a)
    THEN [auction |-> a, res |-> ErrBidTooLow(get_highest_bid_amount(a))]
    ELSE BidAccepted(a, user_id, amount, now, extended_end_time(a, user_id, amount, now))

\* faulty variant: the accepted bid is stored in a fresh map, the other bids are lost
add_or_update_bid_alone(a, user_id, amount, now) ==
    IF is_expired(a, now) THEN [auction |-> a, res |-> ErrAuctionExpired]
    ELSE IF amount <= get_highest_bid_amount(a)
    THEN [auction |-> a, res |-> ErrBidTooLow(get_highest_bid_amount(a))]
    ELSE [auction |-> [a EXCEPT !.end_time = extended_end_time(a, user_id, amount, now),
                                !.bids = MapInsert(EmptyMap, user_id,
                                                   AuctionBid(user_id, amount, now))],
          res |-> Ok]

\* faulty variant: an extension restarts the auction, start_time moves to now
add_or_update_bid_restarts(a, user_id, amount, now) ==
    IF is_expired(a, now) THEN [auction |-> a, res |-> ErrAuctionExpired]
    ELSE IF amount <= get_highest_bid_amount(a)
    THEN [auction |-> a, res |-> ErrBidTooLow(get_highest_bid_amount(a))]
    ELSE [auction |-> [a EXCEPT !.end_time = extended_end_time(a, user_id, amount, now),
                                !.start_time =
                                    IF extended_end_time(a, user_id, amount, now) = a.end_time
                                    THEN a.start_time ELSE now,
                                !.bids = MapInsert(a.bids, user_id,
                                                   AuctionBid(user_id, amount, now))],
          res |-> Ok]

\* faulty variant: the amount is compared before the expiry is looked at
add_or_update_bid_amount_first(a, user_id, amount, now) ==
    IF amount <= get_highest_bid_amount(a)
    THEN [auction |-> a, res |-> ErrBidTooLow(get_highest_bid_amount(a))]
    ELSE IF is_expired(a, now) THEN [auction |-> a, res |-> ErrAuctionExpired]
    ELSE BidAccepted(a, user_id, amount, now, extended_end_time(a, user_id, amount, now))

\* faulty variant: a bid that moves the deadline returns Ok before it is stored
add_or_update_bid_extends_only(a, user_id, amount, now) ==
    IF is_expired(a, now) THEN [auction |-> a, res |-> ErrAuctionExpired]
    ELSE IF amount <= get_highest_bid_amount(a)
    THEN [auction |-> a, res |-> ErrBidTooLow(get_highest_bid_amount(a))]
    ELSE IF extended_end_time(a, user_id, amount, now) /= a.end_time
    THEN [auction |-> [a EXCEPT !.end_time = extended_end_time(a, user_id, amount, now)],
          res |-> Ok]
    ELSE BidAccepted(a, user_id, amount, now, a.end_time)

\* the auction after the call and the call's result
add_or_update_bid(a, user_id, amount, now) ==
    IF is_expired(a, now) THEN [auction |-> a, res |-> ErrAuctionExpired]
    ELSE IF amount <= get_highest_bid_amount(a)
    THEN [auction |-> a, res |-> ErrBidTooLow(get_highest_bid_amount(a))]
    ELSE [auction |-> [a EXCEPT !.end_time = extended_end_time(a, user_id, amount, now),
                                !.bids = MapInsert(a.bids, user_id,
                                                   AuctionBid(user_id, amount, now))],
          res |-> Ok]

----------------------------------------------------------------------------
(* AuctionManager: each operator gives the registry after the call (reg) and *)
(* what the call returns (res / ret)                                         *)

\* faulty variant: an expired auction still in the registry is replaced
start_auction_over_expired(reg, voice_channel_id, creator_id, base, ext, now) ==
    IF voice_channel_id \in DOMAIN reg /\ ~(now > reg[voice_channel_id].end_time)
    THEN [reg |-> reg, res |-> ErrAlreadyRunning]
    ELSE [reg |-> MapInsert(reg, voice_channel_id,
                            AuctionNew(voice_channel_id, creator_id, base, ext, now)),
          res |-> Ok]

\* faulty variant: the deadline is not set from the base duration
start_auction_no_duration(reg, voice_channel_id, creator_id, base, ext, now) ==
    IF voice_channel_id \in DOMAIN reg
    THEN [reg |-> reg, res |-> ErrAlreadyRunning]
    ELSE [reg |-> MapInsert(reg, voice_channel_id,
                            [AuctionNew(voice_channel_id, creator_id, base, ext, now)
                                EXCEPT !.end_time = now + ext]),
          res |-> Ok]

\* faulty variant: the contains_key check is missing
start_auction_unchecked(reg, voice_channel_id, creator_id, base, ext, now) ==
    [reg |-> MapInsert(reg, voice_channel_id,
                       AuctionNew(voice_channel_id, creator_id, base, ext, now)),
     res |-> Ok]

start_auction(reg, voice_channel_id, creator_id, base, ext, now) ==
    IF voice_channel_id \in DOMAIN reg
    THEN [reg |-> reg, res |-> ErrAlreadyRunning]
    ELSE [reg |-> MapInsert(reg, voice_channel_id,
                            AuctionNew(voice_channel_id, creator_id, base, ext, now)),
          res |-> Ok]

\* faulty variant: the bid is applied to a clone of the entry and never stored back
place_bid_on_clone(reg, voice_channel_id, user_id, amount, now) ==
    IF voice_channel_id \in DOMAIN reg
    THEN [reg |-> reg,
          res |-> add_or_update_bid(reg[voice_channel_id], user_id, amount, now).res]
    ELSE [reg |-> reg, res |-> ErrNoActiveAuction]

place_bid(reg, voice_channel_id, user_id, amount, now) ==
    IF voice_channel_id \in DOMAIN reg
    THEN LET r == add_or_update_bid(reg[voice_channel_id], user_id, amount, now)
         IN [reg |-> [reg EXCEPT ![voice_channel_id] = r.auction], res |-> r.res]
    ELSE [reg |-> reg, res |-> ErrNoActiveAuction]

get_auction(reg, voice_channel_id) ==
    IF voice_channel_id \in DOMAIN reg THEN Some(reg[voice_channel_id]) ELSE None

\* faulty variant: the entry is cloned out (get) instead of removed
end_auction_keeps(reg, voice_channel_id) ==
    IF voice_channel_id \in DOMAIN reg
    THEN [reg |-> reg, ret |-> Some(reg[voice_channel_id])]
    ELSE [reg |-> reg, ret |-> None]

\* faulty variant: an auction nobody has bid on is handed out but left in the registry
end_auction_conditional(reg, voice_channel_id) ==
    IF voice_channel_id \in DOMAIN reg
    THEN IF DOMAIN reg[voice_channel_id].bids = {}
         THEN [reg |-> reg, ret |-> Some(reg[voice_channel_id])]
         ELSE [reg |-> MapRemove(reg, voice_channel_id), ret |-> Some(reg[voice_channel_id])]
    ELSE [reg |-> reg, ret |-> None]

end_auction(reg, voice_channel_id) ==
    IF voice_channel_id \in DOMAIN reg
    THEN [reg |-> MapRemove(reg, voice_channel_id), ret |-> Some(reg[voice_channel_id])]
    ELSE [reg |-> reg, ret |-> None]

\* faulty variant: the retain closure is inverted, the live entries are the ones removed
cleanup_expired_auctions_inverted(reg, now) ==
    LET gone == {c \in DOMAIN reg : ~is_expired(reg[c], now)}
    IN [reg |-> [c \in (DOMAIN reg) \ gone |-> reg[c]],
        ret |-> {<<c, reg[c]>> : c \in gone}]

\* faulty variant: the sweep returns the expired entries and empties the registry
cleanup_expired_auctions_clears(reg, now) ==
    LET gone == {c \in DOMAIN reg : is_expired(reg[c], now)}
    IN [reg |-> IF gone = {} THEN reg ELSE EmptyMap,
        ret |-> {<<c, reg[c]>> : c \in gone}]

\* retain: the entries kept, and the expired ones pushed to the returned Vec
cleanup_expired_auctions(reg, now) ==
    LET gone == {c \in DOMAIN reg : is_expired(reg[c], now)}
    IN [reg |-> [c \in (DOMAIN reg) \ gone |-> reg[c]],
        ret |-> {<<c, reg[c]>> : c \in gone}]

----------------------------------------------------------------------------
(* The registry driven through its public operations *)

\* the returned Option<Auction> as the set of its auctions
OptSet(o) == {o[i] : i \in 1..Len(o)}

\* prior: for a start, how often the auction stored before on that channel was returned
NoCall == [op |-> "none", chan |-> "", user |-> "", amount |-> 0, res |-> Ok, ret |-> {},
           prior |-> 0]

Call(op, chan, user, amount, res, ret) ==
    [op |-> op, chan |-> chan, user |-> user, amount |-> amount, res |-> res, ret |-> ret,
     prior |-> 0]

\* no submission accepted yet
NoneAccepted == [u \in Users |-> 0]

\* every auction the operation returned is counted against the channel it was stored in
Hand(returned) ==
    /\ handed' = [c \in Channels |->
                    IF \E a \in returned : a.voice_channel_id = c
                    THEN IF handed[c] < 2 THEN handed[c] + 1 ELSE 2
                    ELSE handed[c]]
    /\ stored' = [c \in Channels |->
                    IF (\E a \in returned : a.voice_channel_id = c) /\ stored[c] > 0
                    THEN stored[c] - 1
                    ELSE stored[c]]
    /\ accepted' = [c \in Channels |->
                      IF \E a \in returned : a.voice_channel_id = c
                      THEN NoneAccepted
                      ELSE accepted[c]]

\* the next instant at which some caller reads the clock
NextInstant(I, t) == SetMin({i \in I : i > t})

\* RwLock::new: nobody holds the lock; a caller outside every manager operation
Unlocked == [writer |-> None, readers |-> {}]

Outside == [pc |-> "outside", chan |-> "", user |-> "", amount |-> 0, now |-> 0, copy |-> None]

Idle == [pc |-> "idle", chan |-> "", amount |-> 0, winner |-> "", new_balance |-> 0]

NothingFinished == [path |-> "none", winner |-> "", amount |-> 0, debits |-> 0,
                    res |-> "none"]

Init ==
    /\ clock = 0
    /\ auctions = EmptyMap
    /\ last = NoCall
    /\ stored = [c \in Channels |-> 0]
    /\ handed = [c \in Channels |-> 0]
    /\ accepted = [c \in Channels |-> NoneAccepted]
    /\ balance = InitialBalance
    /\ transactions = <<>>
    /\ cmd = [u \in Users |-> Idle]
    /\ tasks = EmptyBag
    /\ finished = NothingFinished
    /\ votes = EmptyMap
    /\ lock = Unlocked
    /\ threads = [t \in Threads |-> Outside]
    /\ committed = EmptyMap

Tick(I) ==
    /\ clock < SetMax(I)
    /\ clock' = NextInstant(I, clock)
    /\ last' = Call("tick", "", "", 0, Ok, {})
    /\ UNCHANGED <<auctions, stored, handed, accepted>>
    /\ UNCHANGED <<botvars, votes, lockvars>>

\* the calls on the manager: the registry and the history counters

CallStartAuction(c, u, base, ext) ==
    LET r == start_auction(auctions, c, u, base, ext, clock) IN
        /\ auctions' = r.reg
        /\ handed' = IF r.res = Ok THEN [handed EXCEPT ![c] = 0] ELSE handed
        /\ stored' = IF r.res = Ok
                     THEN [stored EXCEPT ![c] = IF @ < 2 THEN @ + 1 ELSE 2]
                     ELSE stored
        /\ accepted' = IF r.res = Ok THEN [accepted EXCEPT ![c] = NoneAccepted] ELSE accepted
        /\ UNCHANGED clock

CallPlaceBid(c, u, amount) ==
    /\ auctions' = place_bid(auctions, c, u, amount, clock).reg
    /\ accepted' = IF place_bid(auctions, c, u, amount, clock).res = Ok
                   THEN [accepted EXCEPT ![c][u] = amount]
                   ELSE accepted
    /\ UNCHANGED <<clock, stored, handed>>

CallGetAuction(c) == UNCHANGED <<clock, auctions, stored, handed, accepted>>

CallEndAuction(c) ==
    LET r == end_auction(auctions, c) IN
        /\ auctions' = r.reg
        /\ Hand(OptSet(r.ret))
        /\ UNCHANGED clock

\* the calls with their call record, the commands and the database left alone

StartAuctionOn(c, u, base, ext) ==
    /\ CallStartAuction(c, u, base, ext)
    /\ last' = [Call("start", c, u, 0, start_auction(auctions, c, u, base, ext, clock).res, {})
                    EXCEPT !.prior = handed[c]]
    /\ UNCHANGED <<botvars, votes, lockvars>>

PlaceBidOn(c, u, amount) ==
    /\ CallPlaceBid(c, u, amount)
    /\ last' = Call("bid", c, u, amount, place_bid(auctions, c, u, amount, clock).res, {})
    /\ UNCHANGED <<botvars, votes, lockvars>>

GetAuctionOn(c) ==
    /\ CallGetAuction(c)
    /\ last' = Call("get", c, "", 0, Ok, OptSet(get_auction(auctions, c)))
    /\ UNCHANGED <<botvars, votes, lockvars>>

EndAuctionOn(c) ==
    /\ CallEndAuction(c)
    /\ last' = Call("end", c, "", 0, Ok, OptSet(end_auction(auctions, c).ret))
    /\ UNCHANGED <<botvars, votes, lockvars>>

CleanupExpired ==
    LET r == cleanup_expired_auctions(auctions, clock) IN
        /\ auctions' = r.reg
        /\ last' = Call("cleanup", "", "", 0, Ok, {p[2] : p \in r.ret})
        /\ Hand({p[2] : p \in r.ret})
        /\ UNCHANGED clock
        /\ UNCHANGED <<botvars, votes, lockvars>>

StartAuction(Chs) ==
    \E c \in Chs, u \in Users, base \in BaseDurations, ext \in Extensions :
        StartAuctionOn(c, u, base, ext)

PlaceBid(Chs, Ams) == \E c \in Chs, u \in Users, amount \in Ams : PlaceBidOn(c, u, amount)

GetAuction(Chs) == \E c \in Chs : GetAuctionOn(c)

EndAuction(Chs) == \E c \in Chs : EndAuctionOn(c)

\* one channel, the clock read around every deadline
Next ==
    \/ Tick(Instants)
    \/ StartAuction(OneChannel)
    \/ PlaceBid(OneChannel, Amounts)
    \/ GetAuction(OneChannel)
    \/ EndAuction(OneChannel)
    \/ CleanupExpired

Spec == Init /\ [][Next]_vars

\* two channels
NextRegistry ==
    \/ Tick(RegistryInstants)
    \/ StartAuction(Channels)
    \/ PlaceBid(Channels, RegistryAmounts)
    \/ GetAuction(Channels)
    \/ EndAuction(Channels)
    \/ CleanupExpired

SpecRegistry == Init /\ [][NextRegistry]_vars

\* start_auction takes any i64 as base duration and extension: one channel, started with
\* the configuration of /bid start or with a negative base duration
StartAuctionWith(Chs, Bases, Exts) ==
    \E c \in Chs, u \in Users, base \in Bases, ext \in Exts : StartAuctionOn(c, u, base, ext)

NextConfig ==
    \/ Tick(RegistryInstants)
    \/ StartAuctionWith(OneChannel, ConfigDurations, Extensions)
    \/ PlaceBid(OneChannel, RegistryAmounts)
    \/ GetAuction(OneChannel)
    \/ EndAuction(OneChannel)
    \/ CleanupExpired

SpecConfig == Init /\ [][NextConfig]_vars

----------------------------------------------------------------------------
(* The slash commands of src/commands/user.rs and the auto-end task.  A command *)
(* runs from one .await to the next in one step; a user has at most one command *)
(* in flight.  A step that only replies to the user changes nothing.            *)

Finished(path, winner, amount, debits, res) ==
    [path |-> path, winner |-> winner, amount |-> amount, debits |-> debits, res |-> res]

\* a step of a command or of the task, as the call record of the manager sees it
Command == Call("command", "", "", 0, Ok, {})

\* the same when end_auction returned None to it: nothing is said or settled
FoundNothing == Call("command", "", "", 0, ErrNoActiveAuction, {})

\* /bid amount, up to the balance check: place_bid (user.rs:190-240)
CmdBid(u, c, amount) ==
    /\ cmd[u].pc = "idle"
    /\ cmd' = IF amount <= 0 \/ balance[u] < amount
              THEN cmd
              ELSE [cmd EXCEPT ![u] = [Idle EXCEPT !.pc = "bid", !.chan = c,
                                                    !.amount = amount]]
    /\ last' = Command
    /\ UNCHANGED <<votes, lockvars>>
    /\ UNCHANGED <<clock, auctions, stored, handed, accepted>>
    /\ UNCHANGED <<balance, transactions, tasks, finished>>

\* /bid amount, the call on the manager (user.rs:242-251)
CmdBidPlace(u) ==
    /\ cmd[u].pc = "bid"
    /\ CallPlaceBid(cmd[u].chan, u, cmd[u].amount)
    /\ last' = Command
    /\ UNCHANGED <<votes, lockvars>>
    /\ cmd' = [cmd EXCEPT ![u] = Idle]
    /\ UNCHANGED <<balance, transactions, tasks, finished>>

\* /bid start (user.rs:304-390): start_auction(.., 120, 15); with the announcement
\* sent, the auto-end task is spawned and sleeps; when ctx.say fails the handler
\* returns before the spawn
CmdBidStart(u, c, said) ==
    /\ cmd[u].pc = "idle"
    /\ said => BagCardinality(tasks) < MaxTasks
    /\ CallStartAuction(c, u, BaseDurationSeconds, ExtensionSeconds)
    /\ last' = Command
    /\ UNCHANGED <<votes, lockvars>>
    /\ tasks' = IF start_auction(auctions, c, u, BaseDurationSeconds, ExtensionSeconds,
                                 clock).res = Ok /\ said
                THEN tasks (+) SetToBag({[chan |-> c, wake |-> clock + AutoEndSleepSeconds,
                                          pc |-> "sleep"]})
                ELSE tasks
    /\ UNCHANGED <<balance, transactions, cmd, finished>>

\* the auto-end task wakes: get_auction and is_expired on the copy (user.rs:354-358)
TaskWake(t) ==
    /\ BagIn(t, tasks) /\ t.pc = "sleep" /\ clock >= t.wake
    /\ CallGetAuction(t.chan)
    /\ last' = Command
    /\ UNCHANGED <<votes, lockvars>>
    /\ LET got == get_auction(auctions, t.chan) IN
         tasks' = IF got /= None /\ is_expired(got[1], clock)
                  THEN (tasks (-) SetToBag({t})) (+) SetToBag({[t EXCEPT !.pc = "end"]})
                  ELSE tasks (-) SetToBag({t})
    /\ UNCHANGED <<balance, transactions, cmd, finished>>

\* faulty variant: the None of end_auction is announced like an auction without bids
TaskEnd_announces(t) ==
    /\ BagIn(t, tasks) /\ t.pc = "end"
    /\ CallEndAuction(t.chan)
    /\ last' = IF end_auction(auctions, t.chan).ret = None THEN FoundNothing ELSE Command
    /\ UNCHANGED <<votes, lockvars>>
    /\ tasks' = tasks (-) SetToBag({t})
    /\ LET ended == end_auction(auctions, t.chan).ret IN
         IF ended = None THEN finished' = Finished("auto", "", 0, 0, "no_bids")
         ELSE \E w \in get_winner(ended[1]) :
                finished' = IF w = None
                            THEN Finished("auto", "", 0, 0, "no_bids")
                            ELSE Finished("auto", w[1][1], w[1][2], 0,
                                          "not_settled")
    /\ UNCHANGED <<balance, transactions, cmd>>

\* the auto-end task ends the auction and announces the winner, with no access to the
\* database (user.rs:359-379)
TaskEnd(t) ==
    /\ BagIn(t, tasks) /\ t.pc = "end"
    /\ CallEndAuction(t.chan)
    /\ last' = IF end_auction(auctions, t.chan).ret = None THEN FoundNothing ELSE Command
    /\ UNCHANGED <<votes, lockvars>>
    /\ tasks' = tasks (-) SetToBag({t})
    /\ LET ended == end_auction(auctions, t.chan).ret IN
         IF ended = None THEN UNCHANGED finished
         ELSE \E w \in get_winner(ended[1]) :
                finished' = IF w = None
                            THEN Finished("auto", "", 0, 0, "no_bids")
                            ELSE Finished("auto", w[1][1], w[1][2], 0,
                                          "not_settled")
    /\ UNCHANGED <<balance, transactions, cmd>>

\* /bid end: get_auction and the creator check (user.rs:504-510)
CmdBidEnd(u, c) ==
    /\ cmd[u].pc = "idle"
    /\ CallGetAuction(c)
    /\ last' = Command
    /\ UNCHANGED <<votes, lockvars>>
    /\ LET got == get_auction(auctions, c) IN
         cmd' = IF got /= None /\ got[1].creator_id = u
                THEN [cmd EXCEPT ![u] = [Idle EXCEPT !.pc = "end", !.chan = c]]
                ELSE cmd
    /\ UNCHANGED <<balance, transactions, tasks, finished>>

\* faulty variant: an auction without a winner is reported as a failed payment
CmdBidEndRemove_fails(u) ==
    /\ cmd[u].pc = "end"
    /\ CallEndAuction(cmd[u].chan)
    /\ last' = IF end_auction(auctions, cmd[u].chan).ret = None THEN FoundNothing ELSE Command
    /\ UNCHANGED <<votes, lockvars>>
    /\ LET ended == end_auction(auctions, cmd[u].chan).ret IN
         IF ended = None
         THEN cmd' = [cmd EXCEPT ![u] = Idle] /\ UNCHANGED finished
         ELSE \E w \in get_winner(ended[1]) :
                IF w = None
                THEN /\ cmd' = [cmd EXCEPT ![u] = Idle]
                     /\ finished' = Finished("manual", "", 0, 0, "payment_failed")
                ELSE /\ cmd' = [cmd EXCEPT ![u] = [Idle EXCEPT !.pc = "get_balance",
                                   !.chan = cmd[u].chan, !.winner = w[1][1],
                                   !.amount = w[1][2]]]
                     /\ UNCHANGED finished
    /\ UNCHANGED <<balance, transactions, tasks>>

\* faulty variant: the auction is settled from the copy of get_auction and stays stored
CmdBidEndRemove_keeps(u) ==
    /\ cmd[u].pc = "end"
    /\ CallGetAuction(cmd[u].chan)
    /\ last' = IF get_auction(auctions, cmd[u].chan) = None THEN FoundNothing ELSE Command
    /\ UNCHANGED <<votes, lockvars>>
    /\ LET ended == get_auction(auctions, cmd[u].chan) IN
         IF ended = None
         THEN cmd' = [cmd EXCEPT ![u] = Idle] /\ UNCHANGED finished
         ELSE \E w \in get_winner(ended[1]) :
                IF w = None
                THEN /\ cmd' = [cmd EXCEPT ![u] = Idle]
                     /\ finished' = Finished("manual", "", 0, 0, "no_bids")
                ELSE /\ cmd' = [cmd EXCEPT ![u] = [Idle EXCEPT !.pc = "get_balance",
                                   !.chan = cmd[u].chan, !.winner = w[1][1],
                                   !.amount = w[1][2]]]
                     /\ UNCHANGED finished
    /\ UNCHANGED <<balance, transactions, tasks>>

\* /bid end: end_auction, then process_auction_completion up to get_balance
\* (user.rs:512-514, auction.rs:185-189)
CmdBidEndRemove(u) ==
    /\ cmd[u].pc = "end"
    /\ CallEndAuction(cmd[u].chan)
    /\ last' = IF end_auction(auctions, cmd[u].chan).ret = None THEN FoundNothing ELSE Command
    /\ UNCHANGED <<votes, lockvars>>
    /\ LET ended == end_auction(auctions, cmd[u].chan).ret IN
         IF ended = None
         THEN cmd' = [cmd EXCEPT ![u] = Idle] /\ UNCHANGED finished
         ELSE \E w \in get_winner(ended[1]) :
                IF w = None
                THEN /\ cmd' = [cmd EXCEPT ![u] = Idle]
                     /\ finished' = Finished("manual", "", 0, 0, "no_bids")
                ELSE /\ cmd' = [cmd EXCEPT ![u] = [Idle EXCEPT !.pc = "get_balance",
                                   !.chan = cmd[u].chan, !.winner = w[1][1],
                                   !.amount = w[1][2]]]
                     /\ UNCHANGED finished
    /\ UNCHANGED <<balance, transactions, tasks>>

\* faulty variant: a winner short of funds is debited what the balance holds
SettleGetBalance_partial(u, ok) ==
    /\ cmd[u].pc = "get_balance"
    /\ LET current_balance == balance[cmd[u].winner] IN
         IF ~ok
         THEN /\ cmd' = [cmd EXCEPT ![u] = Idle]
              /\ finished' = Finished("manual", cmd[u].winner, cmd[u].amount,
                                      0, "payment_failed")
         ELSE IF current_balance >= cmd[u].amount
         THEN /\ cmd' = [cmd EXCEPT ![u].pc = "update_balance",
                                    ![u].new_balance = current_balance - cmd[u].amount]
              /\ UNCHANGED finished
         ELSE /\ cmd' = [cmd EXCEPT ![u].pc = "update_balance", ![u].new_balance = 0]
              /\ UNCHANGED finished
    /\ last' = Command
    /\ UNCHANGED <<votes, lockvars>>
    /\ UNCHANGED <<clock, auctions, stored, handed, accepted, balance, transactions, tasks>>

\* process_auction_completion: get_balance returned (auction.rs:189-227)
SettleGetBalance(u, ok) ==
    /\ cmd[u].pc = "get_balance"
    /\ LET current_balance == balance[cmd[u].winner] IN
         IF ~ok
         THEN /\ cmd' = [cmd EXCEPT ![u] = Idle]
              /\ finished' = Finished("manual", cmd[u].winner, cmd[u].amount,
                                      0, "payment_failed")
         ELSE IF current_balance >= cmd[u].amount
         THEN /\ cmd' = [cmd EXCEPT ![u].pc = "update_balance",
                                    ![u].new_balance = current_balance - cmd[u].amount]
              /\ UNCHANGED finished
         ELSE /\ cmd' = [cmd EXCEPT ![u] = Idle]
              /\ finished' = Finished("manual", cmd[u].winner, cmd[u].amount,
                                      0, "insufficient_funds")
    /\ last' = Command
    /\ UNCHANGED <<votes, lockvars>>
    /\ UNCHANGED <<clock, auctions, stored, handed, accepted, balance, transactions, tasks>>

\* faulty variant: the winning amount is stored as the new balance
SettleUpdateBalance_amount(u, ok) ==
    /\ cmd[u].pc = "update_balance"
    /\ IF ok
       THEN /\ balance' = [balance EXCEPT ![cmd[u].winner] = cmd[u].amount]
            /\ cmd' = [cmd EXCEPT ![u].pc = "add_transaction"]
            /\ UNCHANGED finished
       ELSE /\ cmd' = [cmd EXCEPT ![u] = Idle]
            /\ finished' = Finished("manual", cmd[u].winner, cmd[u].amount,
                                    0, "payment_failed")
            /\ UNCHANGED balance
    /\ last' = Command
    /\ UNCHANGED <<votes, lockvars>>
    /\ UNCHANGED <<clock, auctions, stored, handed, accepted, transactions, tasks>>

\* process_auction_completion: update_balance returned (auction.rs:194-218)
SettleUpdateBalance(u, ok) ==
    /\ cmd[u].pc = "update_balance"
    /\ IF ok
       THEN /\ balance' = [balance EXCEPT ![cmd[u].winner] = cmd[u].new_balance]
            /\ cmd' = [cmd EXCEPT ![u].pc = "add_transaction"]
            /\ UNCHANGED finished
       ELSE /\ cmd' = [cmd EXCEPT ![u] = Idle]
            /\ finished' = Finished("manual", cmd[u].winner, cmd[u].amount,
                                    0, "payment_failed")
            /\ UNCHANGED balance
    /\ last' = Command
    /\ UNCHANGED <<votes, lockvars>>
    /\ UNCHANGED <<clock, auctions, stored, handed, accepted, transactions, tasks>>

\* process_auction_completion: add_transaction returned; its failure is only logged
\* and Ok(()) goes back to bid_end, which announces the winner
\* (auction.rs:197-212, 230; user.rs:515-530)
SettleAddTransaction(u, ok) ==
    /\ cmd[u].pc = "add_transaction"
    /\ transactions' = IF ok
                       THEN Append(transactions,
                                   [from_user |-> cmd[u].winner, to_user |-> "AUCTION_SYSTEM",
                                    amount |-> cmd[u].amount,
                                    transaction_type |-> "auction_win"])
                       ELSE transactions
    /\ cmd' = [cmd EXCEPT ![u] = Idle]
    /\ finished' = Finished("manual", cmd[u].winner, cmd[u].amount, 1, "ok")
    /\ last' = Command
    /\ UNCHANGED <<votes, lockvars>>
    /\ UNCHANGED <<clock, auctions, stored, handed, accepted, balance, tasks>>

NextBot ==
    \/ Tick(BotInstants)
    \/ \E u \in Users, c \in BotChannels, amount \in BotAmounts : CmdBid(u, c, amount)
    \/ \E u \in Users : CmdBidPlace(u)
    \/ \E u \in Users, c \in BotChannels, said \in BOOLEAN : CmdBidStart(u, c, said)
    \/ \E t \in BagToSet(tasks) : TaskWake(t)
    \/ \E t \in BagToSet(tasks) : TaskEnd(t)
    \/ \E u \in Users, c \in BotChannels : CmdBidEnd(u, c)
    \/ \E u \in Users : CmdBidEndRemove(u)
    \/ \E u \in Users, ok \in BOOLEAN : SettleGetBalance(u, ok)
    \/ \E u \in Users, ok \in BOOLEAN : SettleUpdateBalance(u, ok)
    \/ \E u \in Users, ok \in BOOLEAN : SettleAddTransaction(u, ok)

SpecBot == Init /\ [][NextBot]_vars

\* two voice channels and one actor whose balance covers two winning bids of 1: auctions
\* are started, bid on and ended by /bid end while other commands are in flight; the
\* announcement of /bid start is not delivered, so that no auto-end task runs
SettleBalance == [u \in Users |-> IF u = "B" THEN 2 ELSE 0]

SettleAmounts == {1}

InitSettle ==
    /\ clock = 0
    /\ auctions = EmptyMap
    /\ last = NoCall
    /\ stored = [c \in Channels |-> 0]
    /\ handed = [c \in Channels |-> 0]
    /\ accepted = [c \in Channels |-> NoneAccepted]
    /\ balance = SettleBalance
    /\ transactions = <<>>
    /\ cmd = [u \in Users |-> Idle]
    /\ tasks = EmptyBag
    /\ finished = NothingFinished
    /\ votes = EmptyMap
    /\ lock = Unlocked
    /\ threads = [t \in Threads |-> Outside]
    /\ committed = EmptyMap

NextSettle ==
    \/ \E u \in Users, c \in Channels, amount \in SettleAmounts : CmdBid(u, c, amount)
    \/ \E u \in Users : CmdBidPlace(u)
    \/ \E u \in Users, c \in Channels : CmdBidStart(u, c, FALSE)
    \/ \E u \in Users, c \in Channels : CmdBidEnd(u, c)
    \/ \E u \in Users : CmdBidEndRemove(u)
    \/ \E u \in Users, ok \in BOOLEAN : SettleGetBalance(u, ok)
    \/ \E u \in Users, ok \in BOOLEAN : SettleUpdateBalance(u, ok)
    \/ \E u \in Users, ok \in BOOLEAN : SettleAddTransaction(u, ok)

SpecSettle == InitSettle /\ [][NextSettle]_vars

\* the tokio runtime polls every spawned task and every handler that can run, and time
\* passes; no user is obliged to send a command
FairBot ==
    /\ WF_vars(Tick(BotInstants))
    /\ WF_vars(\E t \in BagToSet(tasks) : TaskWake(t))
    /\ WF_vars(\E t \in BagToSet(tasks) : TaskEnd(t))
    /\ WF_vars(\E u \in Users : CmdBidPlace(u))
    /\ WF_vars(\E u \in Users : CmdBidEndRemove(u))
    /\ WF_vars(\E u \in Users, ok \in BOOLEAN : SettleGetBalance(u, ok))
    /\ WF_vars(\E u \in Users, ok \in BOOLEAN : SettleUpdateBalance(u, ok))
    /\ WF_vars(\E u \in Users, ok \in BOOLEAN : SettleAddTransaction(u, ok))

SpecBotFair == SpecBot /\ FairBot

----------------------------------------------------------------------------
(* The categorical-vote variant of the auction: accept stores the actor's label with no *)
(* ordering constraint, resolve_winner groups the proposals by label and takes the      *)
(* label with the most supporters, ties broken by iteration order.                      *)

\* the candidates voted for, and the actors supporting a candidate
candidates(v) == {v[a] : a \in DOMAIN v}

supporters(v, cand) == {a \in DOMAIN v : v[a] = cand}

\* the orders in which the grouped proposals can be iterated
IterationOrders(S) ==
    {o \in [1..Cardinality(S) -> S] : \A i, j \in 1..Cardinality(S) : o[i] = o[j] => i = j}

\* faulty variant: the first candidate met is kept, the supporter counts are not compared
max_by_supporters_first(v, order, i, best) ==
    IF order = <<>> THEN None ELSE Some(order[1])

\* the maximum by supporter count over order[i..], starting from best; among equal
\* counts the candidate met last is kept
RECURSIVE max_by_supporters(_, _, _, _)
max_by_supporters(v, order, i, best) ==
    IF i > Len(order) THEN best
    ELSE max_by_supporters(v, order, i + 1,
            IF best = None
               \/ Cardinality(supporters(v, order[i])) >= Cardinality(supporters(v, best[1]))
            THEN Some(order[i])
            ELSE best)

\* the outcomes of resolve_winner: None without proposals, else a candidate with its
\* supporters, one outcome per iteration order
resolve_winner(v) ==
    IF DOMAIN v = {} THEN {None}
    ELSE {LET w == max_by_supporters(v, o, 1, None) IN Some(<<w[1], supporters(v, w[1])>>) :
            o \in IterationOrders(candidates(v))}

\* accept of the categorical variant: upsert of the actor's proposal
CastVote(a, label) ==
    /\ votes' = MapInsert(votes, a, label)
    /\ last' = Call("vote", "", a, 0, Ok, {})
    /\ UNCHANGED <<clock, auctions, stored, handed, accepted>>
    /\ UNCHANGED <<botvars, lockvars>>

\* resolve_winner called on the proposals collected so far
ResolveWinner ==
    /\ \E w \in resolve_winner(votes) : last' = Call("resolve", "", "", 0, Ok, {w})
    /\ UNCHANGED <<clock, auctions, stored, handed, accepted, votes>>
    /\ UNCHANGED <<botvars, lockvars>>

NextVote ==
    \/ \E a \in Voters, label \in Labels : CastVote(a, label)
    \/ ResolveWinner

SpecVote == Init /\ [][NextVote]_vars

----------------------------------------------------------------------------
(* The manager operations with the RwLock spelled out: a caller takes the lock, *)
(* runs the body one mutation at a time and drops the guard at the end of the   *)
(* function.  tokio's RwLock grants write mode to one holder with no readers    *)
(* and read mode to any number of readers with no writer.                       *)

Inside(t, pc, c, u, amount) ==
    [threads EXCEPT ![t] = [Outside EXCEPT !.pc = pc, !.chan = c, !.user = u,
                                           !.amount = amount]]

LockFrame == UNCHANGED <<clock, last, stored, handed, accepted, votes>> /\ UNCHANGED botvars

\* self.auctions.write().await of start_auction, place_bid, end_auction and
\* cleanup_expired_auctions
LockWrite(t, op, c, u, amount) ==
    /\ threads[t].pc = "outside"
    /\ lock.writer = None /\ lock.readers = {}
    /\ lock' = [lock EXCEPT !.writer = Some(t)]
    /\ threads' = Inside(t, op, c, u, amount)
    /\ UNCHANGED <<auctions, committed>>
    /\ LockFrame

\* faulty variant: the clone is taken without waiting for the writer to finish
LockRead_unguarded(t, c) ==
    /\ threads[t].pc = "outside"
    /\ lock' = [lock EXCEPT !.readers = @ \cup {t}]
    /\ threads' = Inside(t, "get", c, "", 0)
    /\ UNCHANGED <<auctions, committed>>
    /\ LockFrame

\* self.auctions.read().await of get_auction
LockRead(t, c) ==
    /\ threads[t].pc = "outside"
    /\ lock.writer = None
    /\ lock' = [lock EXCEPT !.readers = @ \cup {t}]
    /\ threads' = Inside(t, "get", c, "", 0)
    /\ UNCHANGED <<auctions, committed>>
    /\ LockFrame

\* the write guard is dropped: the registry as it stands is what the next holder finds
ReleaseWrite(t, reg) ==
    /\ lock' = [lock EXCEPT !.writer = None]
    /\ auctions' = reg
    /\ committed' = reg

\* start_auction, the body
StartBody(t) ==
    /\ threads[t].pc = "start" /\ lock.writer = Some(t)
    /\ ReleaseWrite(t, start_auction(auctions, threads[t].chan, threads[t].user,
                                     BaseDurationSeconds, ExtensionSeconds, clock).reg)
    /\ threads' = [threads EXCEPT ![t] = Outside]
    /\ LockFrame

\* place_bid up to the assignment of end_time (auction.rs:161-72): a rejected bid and a
\* channel without an entry return here
BidExtend(t) ==
    /\ threads[t].pc = "bid" /\ lock.writer = Some(t)
    /\ LET c == threads[t].chan
           r == place_bid(auctions, c, threads[t].user, threads[t].amount, clock)
       IN IF r.res /= Ok
          THEN /\ ReleaseWrite(t, auctions)
               /\ threads' = [threads EXCEPT ![t] = Outside]
          ELSE /\ auctions' = [auctions EXCEPT ![c].end_time =
                                  extended_end_time(auctions[c], threads[t].user,
                                                    threads[t].amount, clock)]
               /\ threads' = [threads EXCEPT ![t].pc = "insert", ![t].now = clock]
               /\ UNCHANGED <<lock, committed>>
    /\ LockFrame

\* place_bid, self.bids.insert and the return (auction.rs:74-80)
BidInsert(t) ==
    /\ threads[t].pc = "insert" /\ lock.writer = Some(t)
    /\ LET c == threads[t].chan IN
         ReleaseWrite(t, [auctions EXCEPT ![c].bids =
                            MapInsert(@, threads[t].user,
                                      AuctionBid(threads[t].user, threads[t].amount,
                                                 threads[t].now))])
    /\ threads' = [threads EXCEPT ![t] = Outside]
    /\ LockFrame

\* end_auction, the body: the removed entry is the caller's
EndBody(t) ==
    /\ threads[t].pc = "end" /\ lock.writer = Some(t)
    /\ ReleaseWrite(t, end_auction(auctions, threads[t].chan).reg)
    /\ threads' = [threads EXCEPT ![t].pc = "holding",
                                  ![t].copy = end_auction(auctions, threads[t].chan).ret]
    /\ LockFrame

\* cleanup_expired_auctions, the body
CleanupBody(t) ==
    /\ threads[t].pc = "cleanup" /\ lock.writer = Some(t)
    /\ ReleaseWrite(t, cleanup_expired_auctions(auctions, clock).reg)
    /\ threads' = [threads EXCEPT ![t] = Outside]
    /\ LockFrame

\* get_auction, the body: auctions.get(..).cloned(), and the read guard is dropped
GetBody(t) ==
    /\ threads[t].pc = "get" /\ t \in lock.readers
    /\ lock' = [lock EXCEPT !.readers = @ \ {t}]
    /\ threads' = [threads EXCEPT ![t].pc = "holding",
                                  ![t].copy = get_auction(auctions, threads[t].chan)]
    /\ UNCHANGED <<auctions, committed>>
    /\ LockFrame

\* faulty variant: what the caller does to its Auction is done to the stored one too
ChangeCopy_shared(t) ==
    /\ threads[t].pc = "holding" /\ threads[t].copy /= None
    /\ threads' = [threads EXCEPT ![t].pc = "changed",
                                  ![t].copy = Some([@[1] EXCEPT !.bids = EmptyMap,
                                                                !.end_time = clock])]
    /\ auctions' = [c \in DOMAIN auctions |->
                      IF c = threads[t].chan
                      THEN [auctions[c] EXCEPT !.bids = EmptyMap, !.end_time = clock]
                      ELSE auctions[c]]
    /\ UNCHANGED <<lock, committed>>
    /\ LockFrame

\* the caller owns the Auction it was handed and changes it
ChangeCopy(t) ==
    /\ threads[t].pc = "holding" /\ threads[t].copy /= None
    /\ threads' = [threads EXCEPT ![t].pc = "changed",
                                  ![t].copy = Some([@[1] EXCEPT !.bids = EmptyMap,
                                                                !.end_time = clock])]
    /\ UNCHANGED <<auctions, lock, committed>>
    /\ LockFrame

\* the caller is done with what the operation returned
Drop(t) ==
    /\ threads[t].pc \in {"holding", "changed"}
    /\ threads' = [threads EXCEPT ![t] = Outside]
    /\ UNCHANGED <<auctions, lock, committed>>
    /\ LockFrame

NextLock ==
    \/ Tick(LockInstants)
    \/ \E t \in Threads, c \in OneChannel, u \in Users : LockWrite(t, "start", c, u, 0)
    \/ \E t \in Threads, c \in OneChannel, u \in Users, amount \in LockAmounts :
          LockWrite(t, "bid", c, u, amount)
    \/ \E t \in Threads, c \in OneChannel : LockWrite(t, "end", c, "", 0)
    \/ \E t \in Threads : LockWrite(t, "cleanup", "", "", 0)
    \/ \E t \in Threads, c \in OneChannel : LockRead(t, c)
    \/ \E t \in Threads : StartBody(t)
    \/ \E t \in Threads : BidExtend(t)
    \/ \E t \in Threads : BidInsert(t)
    \/ \E t \in Threads : EndBody(t)
    \/ \E t \in Threads : CleanupBody(t)
    \/ \E t \in Threads : GetBody(t)
    \/ \E t \in Threads : ChangeCopy(t)
    \/ \E t \in Threads : Drop(t)

SpecLock == Init /\ [][NextLock]_vars

----------------------------------------------------------------------------
(* Properties *)

\* max over all proposals, 0 if none
StoredHighest(a) ==
    IF DOMAIN a.bids = {} THEN 0
    ELSE CHOOSE h \in {a.bids[u].amount : u \in DOMAIN a.bids} :
           \A u \in DOMAIN a.bids : a.bids[u].amount <= h

Live(a) == clock <= a.end_time

\* the value differs from the actor's stored one, or the actor has none
NewOrChanged(a, u, amount) == u \notin DOMAIN a.bids \/ a.bids[u].amount /= amount

\* the step is the call place_bid(c, u, amount)
BidStep(c, u, amount) ==
    last' = [last' EXCEPT !.op = "bid", !.chan = c, !.user = u, !.amount = amount]

\* the step is the call start_auction(c, u, ...)
StartStep(c, u) == last' = [last' EXCEPT !.op = "start", !.chan = c, !.user = u]

\* C1 as stated: every accept with value <= the stored highest is rejected with
\* BidTooLow(highest) and changes nothing.
C1_Original ==
    [][\A c \in Channels, u \in Users, amount \in Amounts :
        (BidStep(c, u, amount) /\ c \in DOMAIN auctions
            /\ amount <= StoredHighest(auctions[c]))
        => (/\ last'.res = ErrBidTooLow(StoredHighest(auctions[c]))
            /\ auctions' = auctions)]_vars

\* C1 amended: on an auction that is not expired, every accept with value <= the stored
\* highest (0 without proposals) is rejected with BidTooLow(highest) and leaves the
\* proposal map and end_time as they were.
C1_LowBidRejected ==
    [][\A c \in Channels, u \in Users, amount \in Amounts :
        (BidStep(c, u, amount) /\ c \in DOMAIN auctions /\ Live(auctions[c])
            /\ amount <= StoredHighest(auctions[c]))
        => (/\ last'.res = ErrBidTooLow(StoredHighest(auctions[c]))
            /\ auctions' = auctions)]_vars

\* a bidder without a proposal ties the highest bid inside the extension window
C1_Witness ==
    /\ last.op = "bid" /\ last.res.kind = "BidTooLow" /\ last.res.n >= 1
    /\ last.chan \in DOMAIN auctions
    /\ LET a == auctions[last.chan] IN
         /\ last.amount = StoredHighest(a)
         /\ last.user \notin DOMAIN a.bids
         /\ Live(a) /\ a.end_time - clock < 30

\* C2: the stored highest value of an auction held in the registry never decreases
\* from one state to the next.
C2_HighestNonDecreasing ==
    [][\A c \in Channels :
        (c \in DOMAIN auctions /\ c \in DOMAIN auctions')
        => StoredHighest(auctions'[c]) >= StoredHighest(auctions[c])]_vars

\* two bidders hold proposals, and a lower bid has just been turned down
C2_Witness ==
    /\ last.op = "bid" /\ last.res.kind = "BidTooLow"
    /\ last.chan \in DOMAIN auctions
    /\ LET a == auctions[last.chan] IN
         /\ Cardinality(DOMAIN a.bids) = 2
         /\ StoredHighest(a) = MaxAmount
         /\ last.user \in DOMAIN a.bids
         /\ last.amount < a.bids[last.user].amount
         /\ last.amount > 0

\* C3 as stated: every accept called with a new-or-changed value while
\* end_time - now < 30 leaves end_time = now + extension_length, every other accept
\* leaves end_time unchanged.
C3_Original ==
    [][\A c \in Channels, u \in Users, amount \in Amounts :
        (BidStep(c, u, amount) /\ c \in DOMAIN auctions)
        => LET a == auctions[c] IN
             IF NewOrChanged(a, u, amount) /\ a.end_time - clock < 30
             THEN auctions'[c].end_time = clock + a.extension_seconds
             ELSE auctions'[c].end_time = a.end_time]_vars

\* C3 amended: an accepted accept with a new-or-changed value made while
\* end_time - now < 30 leaves end_time = now + extension_length; every other accept
\* (rejected, unchanged value, or end_time - now >= 30) leaves end_time unchanged.
C3_ExtensionRule ==
    [][\A c \in Channels, u \in Users, amount \in Amounts :
        (BidStep(c, u, amount) /\ c \in DOMAIN auctions)
        => LET a == auctions[c] IN
             IF last'.res.kind = "Ok" /\ NewOrChanged(a, u, amount)
                /\ a.end_time - clock < 30
             THEN auctions'[c].end_time = clock + a.extension_seconds
             ELSE auctions'[c].end_time = a.end_time]_vars

\* the reference case: 120 s base, 15 s extension, a bid at t = 115 gives end_time 130
C3_Witness ==
    /\ last.op = "bid" /\ last.res.kind = "Ok" /\ clock = 115
    /\ last.chan \in DOMAIN auctions
    /\ auctions[last.chan].start_time = 0
    /\ auctions[last.chan].base_duration_seconds = 120
    /\ auctions[last.chan].extension_seconds = 15
    /\ auctions[last.chan].end_time = 130

\* C4 as stated: resubmitting exactly one's own stored value on a live auction succeeds
\* and does not move end_time.
C4_Original ==
    [][\A c \in Channels, u \in Users, amount \in Amounts :
        (BidStep(c, u, amount) /\ c \in DOMAIN auctions /\ Live(auctions[c])
            /\ ~NewOrChanged(auctions[c], u, amount))
        => (/\ last'.res.kind = "Ok"
            /\ auctions'[c].end_time = auctions[c].end_time)]_vars

\* C4 amended: resubmitting exactly one's own stored value on a live auction is rejected
\* with BidTooLow(highest), does not move end_time and changes nothing else.
C4_ResubmissionRejected ==
    [][\A c \in Channels, u \in Users, amount \in Amounts :
        (BidStep(c, u, amount) /\ c \in DOMAIN auctions /\ Live(auctions[c])
            /\ ~NewOrChanged(auctions[c], u, amount))
        => (/\ last'.res.kind = "BidTooLow"
            /\ last'.res.n = StoredHighest(auctions[c])
            /\ auctions'[c] = auctions[c])]_vars

\* the highest bidder resubmits the winning amount inside the extension window
C4_Witness ==
    /\ last.op = "bid" /\ last.res.kind = "BidTooLow"
    /\ last.chan \in DOMAIN auctions
    /\ LET a == auctions[last.chan] IN
         /\ last.user \in DOMAIN a.bids
         /\ a.bids[last.user].amount = last.amount
         /\ last.amount = StoredHighest(a)
         /\ Live(a) /\ a.end_time - clock < 30

\* C5: while an expired auction stays in the registry, every submit against it is
\* rejected with AuctionExpired, its proposals and end_time stay as they are, and it
\* is still expired in the next state.
C5_ExpiredStaysClosed ==
    [][\A c \in Channels :
        (c \in DOMAIN auctions /\ clock > auctions[c].end_time)
        => /\ \A u \in Users, amount \in Amounts :
                BidStep(c, u, amount) => last'.res = ErrAuctionExpired
           /\ c \in DOMAIN auctions'
                => (auctions'[c] = auctions[c] /\ clock' > auctions'[c].end_time)]_vars

\* a bid above the highest one is turned down on an expired auction that holds proposals
C5_Witness ==
    /\ last.op = "bid" /\ last.res.kind = "AuctionExpired"
    /\ last.chan \in DOMAIN auctions
    /\ LET a == auctions[last.chan] IN
         /\ clock > a.end_time
         /\ DOMAIN a.bids /= {}
         /\ last.amount > StoredHighest(a)

\* C6: start on a channel that has an entry (live, or expired and not yet removed)
\* fails with AlreadyRunning and leaves every entry of the registry unchanged.
C6_StartRejected ==
    [][\A c \in Channels, u \in Users :
        (StartStep(c, u) /\ c \in DOMAIN auctions)
        => (last'.res = ErrAlreadyRunning /\ auctions' = auctions)]_vars

\* start is turned down on an expired entry while the other channel holds an auction
\* with a proposal
C6_Witness ==
    /\ last.op = "start" /\ last.res.kind = "AlreadyRunning"
    /\ DOMAIN auctions = Channels
    /\ clock > auctions[last.chan].end_time
    /\ auctions[last.chan].creator_id /= last.user
    /\ \E c \in Channels \ {last.chan} : DOMAIN auctions[c].bids /= {}

\* C7: start on a channel without an entry succeeds and stores an auction with no
\* proposals, start_time = now and end_time = start_time + base_duration.
C7_StartFresh ==
    [][\A c \in Channels, u \in Users, base \in BaseDurations, ext \in Extensions :
        (StartAuctionOn(c, u, base, ext) /\ c \notin DOMAIN auctions)
        => /\ last'.res.kind = "Ok"
           /\ DOMAIN auctions' = DOMAIN auctions \cup {c}
           /\ auctions'[c].voice_channel_id = c
           /\ auctions'[c].creator_id = u
           /\ auctions'[c].start_time = clock
           /\ auctions'[c].end_time = clock + base
           /\ DOMAIN auctions'[c].bids = {}
           /\ \A d \in DOMAIN auctions : auctions'[d] = auctions[d]]_vars

\* a start after the channel's previous auction was returned by end or cleanup
C7_Witness ==
    /\ last.op = "start" /\ last.res.kind = "Ok" /\ last.prior = 1
    /\ clock > 0
    /\ last.chan \in DOMAIN auctions
    /\ DOMAIN auctions[last.chan].bids = {}
    /\ auctions[last.chan].start_time = clock

\* C8: a channel holds at most one auction: the auctions stored by successful starts
\* and not yet returned number one where the registry has an entry and none elsewhere,
\* and a start succeeds only on a channel without an entry.
C8_OnePerChannel ==
    /\ \A c \in Channels : stored[c] = IF c \in DOMAIN auctions THEN 1 ELSE 0
    /\ (last.op = "start" /\ last.res.kind = "Ok") => last.chan \in DOMAIN auctions

\* a second start on the channel has just failed while the first one's auction is stored
C8_Witness ==
    /\ last.op = "start" /\ last.res.kind = "AlreadyRunning"
    /\ stored[last.chan] = 1
    /\ auctions[last.chan].start_time = clock
    /\ auctions[last.chan].creator_id /= last.user

\* C9: an auction is returned by end/cleanup at most once and the registry holds no
\* copy of it afterwards: end returns the channel's entry and removes it, end on a
\* channel without an entry returns None, and what cleanup returns is gone.
C9_ReturnedOnce ==
    [][/\ \A c \in Channels : handed'[c] <= 1
       /\ \A c \in DOMAIN auctions' : handed'[c] = 0
       /\ \A c \in Channels :
            EndAuctionOn(c)
            => /\ c \notin DOMAIN auctions'
               /\ last'.ret = IF c \in DOMAIN auctions THEN {auctions[c]} ELSE {}
       /\ CleanupExpired
            => \A a \in last'.ret : a.voice_channel_id \notin DOMAIN auctions']_vars

\* end finds nothing on a channel whose expired auction cleanup has already returned
C9_Witness ==
    /\ last.op = "end" /\ last.ret = {}
    /\ handed[last.chan] = 1

\* C10: every auction that leaves the registry with a winner, by the creator's manual end
\* or by the auto-end task, has the winner's balance debited by the winning amount exactly
\* once.  A settlement the ledger refused (insufficient funds, database error) is not
\* counted against the claim here.
C10_DebitedOnce ==
    (/\ finished.path \in {"manual", "auto"}
     /\ finished.winner /= ""
     /\ finished.res \notin {"insufficient_funds", "payment_failed"})
        => finished.debits = 1

\* the auto-end task spawned for the auction now stored on channel c is armed and is due
\* within the instants the clock goes through
Armed(c) ==
    /\ c \in DOMAIN auctions
    /\ \E t \in BagToSet(tasks) :
          /\ t.chan = c
          /\ t.wake = auctions[c].start_time + AutoEndSleepSeconds
          /\ t.wake <= SetMax(BotInstants)

\* C11: every started auction is eventually reaped.  With the auto-end task of the auction
\* armed and fairly scheduled, the auction eventually leaves the registry, also when the
\* extension rule moved end_time after the task was armed.
C11_EventuallyReaped ==
    \A c \in BotChannels : Armed(c) ~> (c \notin DOMAIN auctions)

\* C12: when the ledger reports a winner balance lower than the winning amount, the
\* settlement fails with insufficient funds and mutates nothing: no balance changes and no
\* transaction is recorded, and the settlement is over.
C12_InsufficientFunds ==
    [][\A u \in Users :
        (SettleGetBalance(u, TRUE) /\ balance[cmd[u].winner] < cmd[u].amount)
        => /\ finished' = Finished("manual", cmd[u].winner, cmd[u].amount, 0,
                                   "insufficient_funds")
           /\ cmd'[u] = Idle
           /\ balance' = balance
           /\ transactions' = transactions]_vars

\* a settlement refused for insufficient funds: the winner's balance is below the bid
C12_Witness ==
    /\ finished.res = "insufficient_funds"
    /\ balance[finished.winner] < finished.amount
    /\ transactions /= <<>>

\* the audit record of an auction win
AuctionWin(winner, amount) ==
    [from_user |-> winner, to_user |-> "AUCTION_SYSTEM", amount |-> amount,
     transaction_type |-> "auction_win"]

\* C13: a settlement whose winner has balance >= the winning amount, with every ledger
\* call succeeding, writes balance - winning amount as the winner's balance, where balance
\* is the value the ledger returned to this settlement, changes no other actor's balance,
\* and appends exactly one transaction of the winner with that amount tagged auction_win.
C13_DebitAndRecord ==
    [][\A u \in Users :
        /\ (SettleGetBalance(u, TRUE) /\ balance[cmd[u].winner] >= cmd[u].amount)
            => /\ cmd'[u] = [cmd[u] EXCEPT !.pc = "update_balance",
                                !.new_balance = balance[cmd[u].winner] - cmd[u].amount]
               /\ balance' = balance
               /\ transactions' = transactions
        /\ SettleUpdateBalance(u, TRUE)
            => /\ balance' = [balance EXCEPT ![cmd[u].winner] = cmd[u].new_balance]
               /\ transactions' = transactions
               /\ cmd'[u] = [cmd[u] EXCEPT !.pc = "add_transaction"]
        /\ SettleAddTransaction(u, TRUE)
            => /\ transactions' = Append(transactions,
                                         AuctionWin(cmd[u].winner, cmd[u].amount))
               /\ balance' = balance
               /\ finished' = Finished("manual", cmd[u].winner, cmd[u].amount, 1, "ok")]_vars

\* a settlement that went through: the winner paid the winning amount and one
\* transaction records it
C13_Witness ==
    /\ finished.res = "ok"
    /\ balance[finished.winner] = InitialBalance[finished.winner] - finished.amount
    /\ transactions = <<AuctionWin(finished.winner, finished.amount)>>
    /\ \A v \in Users \ {finished.winner} : balance[v] = InitialBalance[v]

\* C14: every failure of a ledger call during settlement (get_balance, update_balance or
\* add_transaction) is reported to the caller as a failed settlement; the settlement never
\* ends in success when one of its ledger calls failed.
C14_FailureReported ==
    [][\A u \in Users :
        (\/ SettleGetBalance(u, FALSE)
         \/ SettleUpdateBalance(u, FALSE)
         \/ SettleAddTransaction(u, FALSE))
        => /\ finished'.res = "payment_failed"
           /\ cmd'[u] = Idle]_vars

\* C15: an auction is ended early only by its creator.  Under every interleaving of end
\* requests, starts and the auto-end task, the end request of an actor removes an auction
\* only if that actor is the creator of the auction actually removed.
C15_OnlyCreatorEnds ==
    [][\A u \in Users :
        (CmdBidEndRemove(u) /\ cmd[u].chan \in DOMAIN auctions)
        => auctions[cmd[u].chan].creator_id = u]_vars

\* C16: cleanup never returns an auction that is not expired at the moment of the sweep
\* and leaves no expired auction in the registry; what it does not return stays as it was.
C16_SweepExact ==
    [][CleanupExpired
        => /\ \A a \in last'.ret : is_expired(a, clock)
           /\ \A c \in DOMAIN auctions' :
                ~is_expired(auctions'[c], clock) /\ auctions'[c] = auctions[c]
           /\ last'.ret = {auctions[c] : c \in (DOMAIN auctions) \ (DOMAIN auctions')}]_vars

\* a sweep that returned one channel's expired auction and kept the other channel's live one
C16_Witness ==
    /\ last.op = "cleanup"
    /\ \E a \in last.ret : is_expired(a, clock)
    /\ \E c \in DOMAIN auctions : ~is_expired(auctions[c], clock)

\* the step is the call end_auction(c)
EndStep(c) == last' = [last' EXCEPT !.op = "end", !.chan = c]

\* the step is the call get_auction(c)
GetStep(c) == last' = [last' EXCEPT !.op = "get", !.chan = c]

\* C17: end removes and returns the channel's entry whether or not it is expired, and
\* leaves the other channels alone; end on a channel without an entry returns None and
\* changes nothing; from then until a start on the channel succeeds, every place_bid on
\* the channel fails with NoActiveAuction and every get returns None.
C17_EndImmediate ==
    [][\A c \in Channels :
        /\ EndStep(c)
            => /\ auctions' = MapRemove(auctions, c)
               /\ last'.ret = IF c \in DOMAIN auctions THEN {auctions[c]} ELSE {}
        /\ (c \notin DOMAIN auctions /\ c \in DOMAIN auctions')
            => \E u \in Users : StartStep(c, u) /\ last'.res = Ok
        /\ \A u \in Users, amount \in Amounts :
             (BidStep(c, u, amount) /\ handed[c] >= 1)
             => last'.res = ErrNoActiveAuction /\ auctions' = auctions
        /\ (GetStep(c) /\ handed[c] >= 1) => last'.ret = {}]_vars

\* a bid turned down with NoActiveAuction on a channel whose auction end returned while
\* it was live, the other channel's auction untouched
C17_Witness ==
    /\ last.op = "bid"
    /\ last.res = ErrNoActiveAuction
    /\ handed[last.chan] = 1
    /\ clock = 0
    /\ \E c \in Channels \ {last.chan} : c \in DOMAIN auctions

\* C18: place_bid on a channel without an entry fails with NoActiveAuction and leaves the
\* whole registry unchanged, creating no auction; on a channel with an entry its result is
\* the result of add_or_update_bid on the stored auction, the mutated auction replaces the
\* stored one and no other entry changes; get returns what the registry holds.
C18_SubmitDelegates ==
    [][\A c \in Channels :
        /\ \A u \in Users, amount \in Amounts :
             BidStep(c, u, amount)
             => IF c \in DOMAIN auctions
                THEN LET r == add_or_update_bid(auctions[c], u, amount, clock)
                     IN /\ last'.res = r.res
                        /\ DOMAIN auctions' = DOMAIN auctions
                        /\ auctions'[c] = r.auction
                        /\ \A d \in (DOMAIN auctions) \ {c} : auctions'[d] = auctions[d]
                ELSE last'.res = ErrNoActiveAuction /\ auctions' = auctions
        /\ GetStep(c)
             => /\ last'.ret = IF c \in DOMAIN auctions THEN {auctions[c]} ELSE {}
                /\ auctions' = auctions]_vars

\* a get that shows a bid an earlier place_bid stored, while the other channel has no entry
C18_Witness ==
    /\ last.op = "get"
    /\ \E a \in last.ret : \E u \in DOMAIN a.bids : a.bids[u].amount = MaxRegistryAmount
    /\ \E c \in Channels : c \notin DOMAIN auctions

\* C19: get_winner returns None exactly when the auction has no bids; otherwise it returns
\* one outcome only, the bidder whose stored amount no other stored amount exceeds,
\* together with that amount, which is get_highest_bid_amount.
C19_WinnerIsHighest ==
    \A c \in DOMAIN auctions :
        LET a == auctions[c] IN
            /\ (None \in get_winner(a)) <=> (DOMAIN a.bids = {})
            /\ Cardinality(get_winner(a)) = 1
            /\ \A w \in get_winner(a) \ {None} :
                 /\ w[1][1] \in DOMAIN a.bids
                 /\ a.bids[w[1][1]].amount = w[1][2]
                 /\ \A v \in DOMAIN a.bids : a.bids[v].amount <= w[1][2]
                 /\ w[1][2] = get_highest_bid_amount(a)

\* an auction holding two bids, A = 1 and B = 2: the winner is (B, 2)
C19_Witness ==
    \E c \in DOMAIN auctions :
        /\ DOMAIN auctions[c].bids = {"A", "B"}
        /\ auctions[c].bids["A"].amount = 1
        /\ auctions[c].bids["B"].amount = 2
        /\ get_winner(auctions[c]) = {Some(<<"B", 2>>)}

\* the candidates no other candidate has more supporters than
Leaders(v) ==
    {x \in candidates(v) :
        \A y \in candidates(v) : Cardinality(supporters(v, y)) <= Cardinality(supporters(v, x))}

\* C20: for a categorical-vote auction resolve_winner returns the candidate with strictly
\* the largest supporter count when there is one; when several candidates tie for the
\* lead, every outcome is one of the tied candidates.
C20_VoteWinnerLeads ==
    /\ \A w \in resolve_winner(votes) \ {None} :
         w[1][1] \in Leaders(votes) /\ w[1][2] = supporters(votes, w[1][1])
    /\ (None \in resolve_winner(votes)) <=> (DOMAIN votes = {})
    /\ Cardinality(Leaders(votes)) = 1
         => resolve_winner(votes) = {Some(<<x, supporters(votes, x)>>) : x \in Leaders(votes)}
    /\ last.op = "resolve" => last.ret \subseteq resolve_winner(votes)

\* A and B vote chess, C votes poker, and resolve_winner has returned (chess, {A, B})
C20_Witness ==
    /\ votes = [a \in Voters |-> IF a = "C" THEN "poker" ELSE "chess"]
    /\ last.op = "resolve"
    /\ last.ret = {Some(<<"chess", {"A", "B"}>>)}

\* the extension windows two callers mean their auctions to have: W1 = 10 on vc1 and
\* W2 = 30 on vc2
RequestedWindow == [c \in Channels |-> IF c = "vc1" THEN 10 ELSE 30]

\* C21: the extension window is supplied per auction at start and not hard-coded: of two
\* auctions meant to have windows W1 < W2, an accepted new-or-changed bid with remaining
\* time r, W1 <= r < W2, extends the second and not the first.
C21_WindowPerAuction ==
    [][\A c \in Channels, u \in Users, amount \in Amounts :
        (/\ BidStep(c, u, amount)
         /\ c \in DOMAIN auctions
         /\ last'.res.kind = "Ok"
         /\ NewOrChanged(auctions[c], u, amount))
        => LET a == auctions[c] IN
             IF a.end_time - clock < RequestedWindow[c]
             THEN auctions'[c].end_time = clock + a.extension_seconds
             ELSE auctions'[c].end_time = a.end_time]_vars

\* C22: end_time >= start_time in every reachable state of every auction, for every
\* configuration start accepts and after any sequence of bids.
C22_EndAfterStart ==
    \A c \in DOMAIN auctions : auctions[c].end_time >= auctions[c].start_time

\* what the operation thread t is in does to registry reg when run as one step
Serial(t, reg) ==
    LET c == threads[t].chan
        u == threads[t].user
    IN CASE threads[t].pc = "start" ->
                start_auction(reg, c, u, BaseDurationSeconds, ExtensionSeconds, clock).reg
         [] threads[t].pc = "bid" -> place_bid(reg, c, u, threads[t].amount, clock).reg
         [] threads[t].pc = "insert" ->
                place_bid(reg, c, u, threads[t].amount, threads[t].now).reg
         [] threads[t].pc = "end" -> end_auction(reg, c).reg
         [] threads[t].pc = "cleanup" -> cleanup_expired_auctions(reg, clock).reg
         [] OTHER -> reg

\* C23: the registry operations exclude one another with respect to writers: a writer
\* holds the lock alone, every operation leaves the registry as the same operation run
\* in one step on the registry the previous writer left, and get clones an auction of
\* such a registry, never one a writer is halfway through changing.
C23_Serializable ==
    [][/\ lock'.writer /= None => lock'.readers = {}
       /\ \A t \in Threads :
            /\ (lock.writer = Some(t) /\ lock'.writer = None)
                => auctions' = Serial(t, committed)
            /\ (threads[t].pc = "get" /\ threads'[t].pc = "holding")
                => threads'[t].copy = get_auction(committed, threads[t].chan)]_vars

\* a writer is between the assignment of end_time and the insert of the bid while the
\* other caller holds the clone get handed it before
C23_Witness ==
    \E t, r \in Threads :
        /\ threads[t].pc = "insert"
        /\ auctions /= committed
        /\ threads[r].pc = "holding"
        /\ threads[r].copy = Some(committed[threads[r].chan])

\* C24: get returns a copy.  What get hands out equals the stored auction at the time of
\* the call and get changes nothing in the registry; no step of another caller (a later
\* bid, end or cleanup on the channel) changes a copy already handed out; and a change
\* the holder makes to its copy leaves the registry as it was.
C24_GetReturnsCopy ==
    [][\A t \in Threads :
        /\ (threads[t].pc = "get" /\ threads'[t].pc = "holding")
            => /\ threads'[t].copy = get_auction(auctions, threads[t].chan)
               /\ auctions' = auctions
        /\ (threads[t].pc \in {"holding", "changed"} /\ threads'[t].pc = threads[t].pc)
            => threads'[t].copy = threads[t].copy
        /\ (threads[t].pc = "holding" /\ threads'[t].pc = "changed")
            => auctions' = auctions]_vars

\* the holder has emptied the bids of its copy and the stored auction still has its bid;
\* the other caller holds an older copy, taken before that bid was placed
C24_Witness ==
    \E t, r \in Threads :
        /\ threads[t].pc = "changed"
        /\ threads[t].chan \in DOMAIN auctions
        /\ DOMAIN auctions[threads[t].chan].bids /= {}
        /\ threads[r].pc = "holding"
        /\ threads[r].copy /= None
        /\ threads[r].copy[1].start_time = auctions[threads[t].chan].start_time
        /\ DOMAIN threads[r].copy[1].bids = {}

\* C25: a path that found the auction on a snapshot and calls end afterwards tolerates the
\* entry having been removed in between.  The auto-end task and /bid end then get None
\* from end_auction and finish without an announcement and without touching the ledger.
C25_RemovedInBetween ==
    [][/\ \A t \in BagToSet(tasks) :
            (TaskEnd(t) /\ t.chan \notin DOMAIN auctions)
            => /\ finished' = finished
               /\ balance' = balance /\ transactions' = transactions
               /\ auctions' = auctions
               /\ CopiesIn(t, tasks') = CopiesIn(t, tasks) - 1
       /\ \A u \in Users :
            (CmdBidEndRemove(u) /\ cmd[u].chan \notin DOMAIN auctions)
            => /\ finished' = finished
               /\ balance' = balance /\ transactions' = transactions
               /\ auctions' = auctions
               /\ cmd'[u] = Idle]_vars

\* the auto-end task found the auction expired, /bid end removed and announced it first,
\* and the task's end_auction found nothing
C25_Witness ==
    /\ last = FoundNothing
    /\ finished.path = "manual"
    /\ tasks = EmptyBag
    /\ \A u \in Users : cmd[u] = Idle
    /\ auctions = EmptyMap

\* the positions of /bid end inside process_auction_completion
SettlePcs == {"get_balance", "update_balance", "add_transaction"}

\* C26: settlement happens strictly after the removal and outside the registry.  /bid end
\* enters process_auction_completion only by the step whose end_auction removed the entry
\* of its channel, so that get_auction on the channel returns None right after it; and
\* every step of the settlement, whether the database call succeeds or fails, leaves the
\* registry as it was.
C26_SettleAfterRemoval ==
    [][\A u \in Users :
          /\ (cmd[u].pc \notin SettlePcs /\ cmd'[u].pc \in SettlePcs)
             => /\ cmd[u].pc = "end"
                /\ cmd'[u].chan = cmd[u].chan
                /\ cmd[u].chan \in DOMAIN auctions
                /\ get_auction(auctions', cmd[u].chan) = None
                /\ Some(<<cmd'[u].winner, cmd'[u].amount>>)
                       \in get_winner(auctions[cmd[u].chan])
          /\ (cmd[u].pc \in SettlePcs /\ cmd'[u] /= cmd[u])
             => auctions' = auctions]_vars

\* a settlement failed on the database and the registry holds nothing to ask again for
C26_Witness ==
    /\ last = Command
    /\ finished.path = "manual" /\ finished.res = "payment_failed"
    /\ finished.winner /= ""
    /\ \A u \in Users : cmd[u] = Idle
    /\ \A c \in BotChannels : get_auction(auctions, c) = None

\* C27: an auction holds at most one proposal record per actor: every record is stored
\* under the actor it names.  An accepted submission leaves the submitting actor with
\* exactly the new record (the submitted value, the time of the call), whether or not the
\* actor had one before, and leaves every other actor's record as it was.
C27_OneRecordPerActor ==
    /\ [](\A c \in DOMAIN auctions : \A u \in DOMAIN auctions[c].bids :
              auctions[c].bids[u].user_id = u)
    /\ [][\A c \in Channels, u \in Users, amount \in Amounts :
            (BidStep(c, u, amount) /\ c \in DOMAIN auctions /\ last'.res = Ok)
            => LET a == auctions[c]
                   b == auctions'[c]
               IN /\ DOMAIN b.bids = (DOMAIN a.bids) \cup {u}
                  /\ b.bids[u] = AuctionBid(u, amount, clock)
                  /\ \A v \in (DOMAIN a.bids) \ {u} : b.bids[v] = a.bids[v]]_vars

\* the top bid of 3 has just been accepted from an actor; the other actor's record of 2,
\* placed at an earlier instant, is still there
C27_Witness ==
    /\ last.op = "bid" /\ last.res = Ok /\ last.amount = MaxAmount
    /\ last.chan \in DOMAIN auctions
    /\ LET a == auctions[last.chan] IN
         /\ a.bids[last.user] = AuctionBid(last.user, MaxAmount, clock)
         /\ \E v \in (DOMAIN a.bids) \ {last.user} :
               a.bids[v].amount = MaxAmount - 1 /\ a.bids[v].timestamp < clock

\* C28: the sweep leaves every entry that is still open untouched: an auction that is not
\* expired at the sweep is stored under the same channel after it, with the same
\* proposals, end_time, creator and configuration.
C28_SweepKeepsOpen ==
    [][last'.op = "cleanup"
        => \A c \in DOMAIN auctions :
              ~is_expired(auctions[c], clock)
              => (c \in DOMAIN auctions' /\ auctions'[c] = auctions[c])]_vars

\* the sweep took an expired auction away and kept an open one that holds a proposal
C28_Witness ==
    /\ last.op = "cleanup" /\ last.ret /= {}
    /\ \E c \in DOMAIN auctions :
          /\ ~is_expired(auctions[c], clock)
          /\ DOMAIN auctions[c].bids /= {}
          /\ auctions[c].start_time > 0

\* C29: as long as an auction stays in the registry its channel, creator, start_time, base
\* duration and extension length do not change; a submission changes nothing but the
\* proposals and end_time of the auction of the channel it addresses.
C29_IdentityFixed ==
    [][/\ \A c \in Channels :
            (c \in DOMAIN auctions /\ c \in DOMAIN auctions')
            => /\ auctions'[c].voice_channel_id = c
               /\ auctions'[c].voice_channel_id = auctions[c].voice_channel_id
               /\ auctions'[c].creator_id = auctions[c].creator_id
               /\ auctions'[c].start_time = auctions[c].start_time
               /\ auctions'[c].base_duration_seconds = auctions[c].base_duration_seconds
               /\ auctions'[c].extension_seconds = auctions[c].extension_seconds
       /\ \A c \in Channels, u \in Users, amount \in Amounts :
            BidStep(c, u, amount)
            => /\ DOMAIN auctions' = DOMAIN auctions
               /\ \A d \in (DOMAIN auctions) \ {c} : auctions'[d] = auctions[d]]_vars

\* a submission has just extended the auction of one channel while the other channel
\* holds an auction with a proposal of its own
C29_Witness ==
    /\ last.op = "bid" /\ last.res = Ok
    /\ DOMAIN auctions = Channels
    /\ LET a == auctions[last.chan] IN
         /\ a.start_time < clock
         /\ a.end_time = clock + a.extension_seconds
         /\ a.end_time /= a.start_time + a.base_duration_seconds
    /\ \E d \in Channels \ {last.chan} : DOMAIN auctions[d].bids /= {}

\* C30: settling an auction that ended without a proposal succeeds trivially: /bid end
\* on an auction without bids gets Ok from process_auction_completion at once, reports
\* the end without a winner and is done, with no balance changed and no transaction
\* recorded.
C30_NoWinnerSettles ==
    [][\A u \in Users :
        (/\ cmd[u].pc = "end" /\ cmd'[u] /= cmd[u]
         /\ cmd[u].chan \in DOMAIN auctions
         /\ DOMAIN auctions[cmd[u].chan].bids = {})
        => /\ cmd'[u] = Idle
           /\ finished' = Finished("manual", "", 0, 0, "no_bids")
           /\ balance' = balance
           /\ transactions' = transactions]_vars

\* /bid end has just ended an auction nobody bid on, after an earlier auction was settled
\* with its transaction on record
C30_Witness ==
    /\ last = Command
    /\ finished = Finished("manual", "", 0, 0, "no_bids")
    /\ Len(transactions) = 1
    /\ \A u \in Users : cmd[u] = Idle
    /\ auctions = EmptyMap

\* C31: is_expired() is true exactly when the current time is past end_time, so that at
\* the deadline itself the auction is live and a submission is not turned down as
\* expired; time_remaining() is end_time - now floored at zero, never negative and zero
\* on an expired auction.  Both are queries on &self: they are functions of the auction
\* and the clock.
C31_ExpiryAndRemaining ==
    /\ [](\A c \in DOMAIN auctions :
            LET a == auctions[c] IN
              /\ is_expired(a, clock) <=> clock > a.end_time
              /\ time_remaining(a, clock) >= 0
              /\ time_remaining(a, clock) = SetMax({0, a.end_time - clock})
              /\ is_expired(a, clock) => time_remaining(a, clock) = 0)
    /\ [][\A c \in Channels, u \in Users, amount \in Amounts :
            (BidStep(c, u, amount) /\ c \in DOMAIN auctions
                /\ clock = auctions[c].end_time)
            => last'.res /= ErrAuctionExpired]_vars

\* the first bid of an auction was taken at the very second of its deadline, 120 s after
\* the start
C31_Witness ==
    /\ last.op = "bid" /\ last.res = Ok /\ last.amount = 1
    /\ last.chan \in DOMAIN auctions
    /\ LET a == auctions[last.chan] IN
         /\ clock = a.start_time + a.base_duration_seconds
         /\ a.bids[last.user].timestamp = clock
         /\ ~is_expired(a, clock)
         /\ time_remaining(a, clock) = a.extension_seconds

\* C32: the extension rule only ever pushes the deadline later: after every submission,
\* accepted or rejected, end_time is at least what it was before the call.
C32_DeadlineNeverEarlier ==
    [][\A c \in Channels, u \in Users, amount \in Amounts :
        (BidStep(c, u, amount) /\ c \in DOMAIN auctions)
        => auctions'[c].end_time >= auctions[c].end_time]_vars

\* C33: acceptance is characterised exactly: a submission succeeds if and only if the
\* auction is not expired and the value exceeds the highest stored value (0 without
\* proposals), so that a first bid is accepted exactly when it is at least 1; on an expired
\* auction the error is the expiry error, also for a value that is too low.
C33_AcceptanceExact ==
    [][\A c \in Channels, u \in Users, amount \in Amounts :
        (BidStep(c, u, amount) /\ c \in DOMAIN auctions)
        => LET a == auctions[c] IN
             /\ last'.res = Ok
                  <=> (clock <= a.end_time /\ amount > SetMax({0, StoredHighest(a)}))
             /\ (clock <= a.end_time /\ DOMAIN a.bids = {})
                  => (last'.res = Ok <=> amount >= 1)
             /\ clock > a.end_time => last'.res = ErrAuctionExpired
             /\ last'.res \in {Ok, ErrAuctionExpired, ErrBidTooLow(StoredHighest(a))}]_vars

\* a bid below the highest stored one, on an expired auction, got the expiry error
C33_Witness ==
    /\ last.op = "bid" /\ last.res = ErrAuctionExpired
    /\ last.chan \in DOMAIN auctions
    /\ LET a == auctions[last.chan] IN
         /\ clock > a.end_time
         /\ last.amount >= 1
         /\ last.amount < StoredHighest(a)

\* C34: in every reachable state all stored proposal values of an auction are at least 1
\* and pairwise distinct across actors, so that the maximum is held by exactly one actor
\* and get_winner has one outcome, whatever the order in which concurrent submissions
\* get the lock.
C34_NoTie ==
    \A c \in DOMAIN auctions :
       LET a == auctions[c] IN
         /\ \A u \in DOMAIN a.bids : a.bids[u].amount >= 1
         /\ \A u, v \in DOMAIN a.bids : u /= v => a.bids[u].amount /= a.bids[v].amount
         /\ DOMAIN a.bids /= {}
              => /\ Cardinality({u \in DOMAIN a.bids :
                                    a.bids[u].amount = StoredHighest(a)}) = 1
                 /\ Cardinality(get_winner(a)) = 1

\* both actors hold a proposal and a thread has the write lock for the lower actor's bid
\* of exactly the highest stored value
C34_Witness ==
    \E t \in Threads, c \in DOMAIN auctions :
       LET a == auctions[c] IN
         /\ DOMAIN a.bids = Users
         /\ threads[t].pc = "bid" /\ threads[t].chan = c
         /\ lock.writer = Some(t)
         /\ threads[t].amount = StoredHighest(a)
         /\ a.bids[threads[t].user].amount < StoredHighest(a)
         /\ ~is_expired(a, clock)

\* the auction holds, for every actor, the value of the actor's last accepted submission
\* on the instance stored under c, and no record for an actor without one
HoldsAccepted(a, c) ==
    \A u \in Users :
       IF accepted[c][u] = 0 THEN u \notin DOMAIN a.bids
       ELSE u \in DOMAIN a.bids /\ a.bids[u].amount = accepted[c][u]

\* C35: no accepted bid is lost and none is accepted after the removal: the auction that
\* end or the sweep returns holds, for every actor, the value of that actor's last
\* submission that returned Ok on that auction instance; a submission that comes after
\* the removal fails with NoActiveAuction and changes nothing.
C35_NoBidLost ==
    [][/\ \A c \in Channels :
            (EndStep(c) /\ c \in DOMAIN auctions)
            => /\ Cardinality(last'.ret) = 1
               /\ \A a \in last'.ret : a.voice_channel_id = c /\ HoldsAccepted(a, c)
       /\ last'.op = "cleanup"
            => \A a \in last'.ret : HoldsAccepted(a, a.voice_channel_id)
       /\ \A c \in Channels, u \in Users, amount \in Amounts :
            (BidStep(c, u, amount) /\ c \notin DOMAIN auctions)
            => /\ last'.res = ErrNoActiveAuction
               /\ auctions' = auctions
               /\ accepted' = accepted]_vars

\* the sweep returned an auction in which one actor had raised an own earlier bid over
\* the other actor's: the values of the last accepted submissions, 3 and 2, are in it
C35_Witness ==
    /\ last.op = "cleanup"
    /\ \E a \in last.ret :
          /\ DOMAIN a.bids = Users
          /\ \E u, v \in Users :
                /\ a.bids[u].amount = MaxAmount /\ a.bids[v].amount = MaxAmount - 1
                /\ a.bids[u].timestamp > a.bids[v].timestamp
    /\ auctions = EmptyMap

\* what the auction_win rows on record say the actor has paid
RECURSIVE Paid(_, _)
Paid(rows, w) ==
    IF rows = <<>> THEN 0
    ELSE (IF Head(rows).from_user = w THEN Head(rows).amount ELSE 0) + Paid(Tail(rows), w)

\* C36: settlement debits are not lost under concurrency: when settlements of auctions
\* won by the same actor overlap and return success, the actor's balance is the initial
\* balance less every winning amount, and it is never negative.  Every auction_win row is
\* written by a settlement that returns success, so the balance is at most the initial
\* balance less the amounts on record.
C36_DebitsNotLost ==
    \A w \in Users :
       /\ balance[w] >= 0
       /\ balance[w] <= SettleBalance[w] - Paid(transactions, w)

\* C37: the auto-end task removes only expired auctions: under every interleaving with
\* /bid end and a following /bid start on the channel, the auction that the task's
\* end_auction removes is expired at the moment it is removed.
C37_TaskRemovesExpired ==
    [][\A t \in BagToSet(tasks) :
        (TaskEnd(t) /\ t.chan \in DOMAIN auctions)
        => is_expired(auctions[t.chan], clock)]_vars

================================================================================
